---- MODULE Spec2Model ----
(***************************************************************************)
(* Model of the answer-file resolver of proxmox-auto-installer:            *)
(*   fetch_plugins/http.rs       FetchFromHTTP::get_answer and helpers     *)
(*   fetch_plugins/utils/mod.rs  scan_partlabels, mount_proxmoxinst_part   *)
(* Strings are sequences of one-character strings, so that trim,           *)
(* starts_with, split and slicing are computed as the code computes them.  *)
(* Option<T> is a sequence of length 0 (None) or 1 (Some).                 *)
(***************************************************************************)
EXTENDS Integers, Sequences, FiniteSets, TLC

\* ------------------------------------------------------------------ bounds
\* most lines a lease file holds
MaxLines == 2

\* ------------------------------------------------- Option and Result values
None == <<>>
Some(x) == <<x>>
IsSome(o) == Len(o) = 1
IsNone(o) == Len(o) = 0
Unwrap(o) == o[1]

Ok(v) == [tag |-> "Ok", val |-> v, err |-> ""]
Err(msg) == [tag |-> "Err", val |-> <<>>, err |-> msg]
\* an unwinding panic: the call does not return
Panic(msg) == [tag |-> "Panic", val |-> <<>>, err |-> msg]

\* --------------------------------------------------------- program constants
CERT_FINGERPRINT_FILE == <<"c","e","r","t","_","f","i","n","g","e","r","p","r","i","n","t",".","t","x","t">>
ANSWER_SUBDOMAIN == <<"p","r","o","x","m","o","x","i","n","s","t">>
ANSWER_SUBDOMAIN_FP == <<"p","r","o","x","m","o","x","i","n","s","t","-","f","p">>
DHCP_URL_OPTION == <<"p","r","o","x","m","o","x","i","n","s","t","-","u","r","l">>
DHCP_FP_OPTION == <<"p","r","o","x","m","o","x","i","n","s","t","-","f","p">>
ANSWER_MP == <<"/","m","n","t","/","a","n","s","w","e","r">>
PARTLABEL == <<"p","r","o","x","m","o","x","i","n","s","t">>
SEARCH_PATH == <<"/","d","e","v","/","d","i","s","k","/","b","y","-","l","a","b","e","l">>
TMP_CERT_FINGERPRINT == <<"/","t","m","p","/","c","e","r","t","_","f","i","n","g","e","r","p","r","i","n","t">>

\* ------------------------------------------------------------ str primitives
\* char::is_whitespace, restricted to the characters the model uses
WhiteSpace == {" ", "\t", "\n", "\r"}

RECURSIVE TrimStart(_)
\* str::trim_start
TrimStart(s) ==
  IF s # <<>> /\ Head(s) \in WhiteSpace THEN TrimStart(Tail(s)) ELSE s

RECURSIVE TrimEnd(_)
\* str::trim_end
TrimEnd(s) ==
  IF s # <<>> /\ s[Len(s)] \in WhiteSpace
    THEN TrimEnd(SubSeq(s, 1, Len(s) - 1)) ELSE s

\* str::trim
Trim(s) == TrimEnd(TrimStart(s))

\* str::starts_with
StartsWith(s, p) == Len(s) >= Len(p) /\ SubSeq(s, 1, Len(p)) = p

RECURSIVE SplitOn(_, _)
\* str::split(c), collected: the pieces between occurrences of c
\* (always at least one piece, possibly empty)
SplitOn(s, c) ==
  IF \E i \in 1..Len(s) : s[i] = c
    THEN LET i == CHOOSE i \in 1..Len(s) :
                    s[i] = c /\ \A j \in 1..(i-1) : s[j] # c
         IN  <<SubSeq(s, 1, i - 1)>> \o SplitOn(SubSeq(s, i + 1, Len(s)), c)
    ELSE <<s>>

\* Iterator::nth(n) on a collected iterator (n counts from 0)
Nth(seq, n) == IF n + 1 <= Len(seq) THEN Some(seq[n + 1]) ELSE None

\* DoubleEndedIterator::nth_back(n) on a collected iterator
NthBack(seq, n) == IF n + 1 <= Len(seq) THEN Some(seq[Len(seq) - n]) ELSE None

\* str::split_once(c)
SplitOnce(s, c) ==
  IF \E i \in 1..Len(s) : s[i] = c
    THEN LET i == CHOOSE i \in 1..Len(s) :
                    s[i] = c /\ \A j \in 1..(i-1) : s[j] # c
         IN  Some(<<SubSeq(s, 1, i - 1), SubSeq(s, i + 1, Len(s))>>)
    ELSE None

RECURSIVE Replace(_, _, _)
\* str::replace(c, r) for a one-character pattern c
Replace(s, c, r) ==
  IF s = <<>> THEN <<>>
  ELSE (IF Head(s) = c THEN r ELSE <<Head(s)>>) \o Replace(Tail(s), c, r)

\* ------------------------------------------------------- strip_dhcp_option
\* a slice that leaves the closing quote in place
Slice1ToLenMinus2_OffByOne(value) ==
  IF Len(value) < 3 THEN Panic("slice index")
  ELSE Ok(SubSeq(value, 2, Len(value) - 1))

\* The slice &value[1..value.len() - 2] of an ASCII string.  With len < 2 the
\* subtraction underflows (panic in a checked build, and a wrapped end that is
\* out of range otherwise); with len = 2 the range 1..0 is rejected.  Either
\* way the slice panics.
Slice1ToLenMinus2(value) ==
  IF Len(value) < 3 THEN Panic("slice index")
  ELSE Ok(SubSeq(value, 2, Len(value) - 2))

\* strip_dhcp_option(value: Option<&str>) -> Option<String>; the result is
\* Ok(option) when the closure returns and Panic when the slice panics
strip_dhcp_option(value) ==
  IF IsNone(value) THEN Ok(None)
  ELSE LET r == Slice1ToLenMinus2(Unwrap(value))
       IN  IF r.tag = "Ok" THEN Ok(Some(r.val)) ELSE r

\* ------------------------------------------------------------- fetch_dhcp
url_match == <<"o","p","t","i","o","n"," ">> \o DHCP_URL_OPTION
fp_match == <<"o","p","t","i","o","n"," ">> \o DHCP_FP_OPTION

\* line.split(' ').nth_back(0)
LastToken(line) == NthBack(SplitOn(line, " "), 0)

\* a guard that lets every matching line overwrite the URL
UrlGuard_LastWins(answer_url, line) ==
  StartsWith(Trim(line), url_match)

\* the guard of the first `if` of the loop body
UrlGuard(answer_url, line) ==
  IsNone(answer_url) /\ StartsWith(Trim(line), url_match)

\* a guard that lets the lease overwrite a fingerprint that is already set
FpGuard_Overwrite(fingerprint, line) ==
  StartsWith(Trim(line), fp_match)

\* the guard of the second `if` of the loop body
FpGuard(fingerprint, line) ==
  IsNone(fingerprint) /\ StartsWith(Trim(line), fp_match)

RECURSIVE DhcpLoop(_, _, _, _)
\* the `for line in leases.lines()` loop from line i on; yields
\* Ok(<<answer_url, fingerprint>>) or the Panic of strip_dhcp_option
DhcpLoop(lines, i, answer_url, fingerprint) ==
  IF i > Len(lines) THEN Ok(<<answer_url, fingerprint>>)
  ELSE
    LET line == lines[i]
        u == IF UrlGuard(answer_url, line)
               THEN strip_dhcp_option(LastToken(line)) ELSE Ok(answer_url)
    IN  IF u.tag = "Panic" THEN u
        ELSE
          LET f == IF FpGuard(fingerprint, line)
                     THEN strip_dhcp_option(LastToken(line))
                     ELSE Ok(fingerprint)
          IN  IF f.tag = "Panic" THEN f
              ELSE DhcpLoop(lines, i + 1, u.val, f.val)

\* fetch_dhcp(fingerprint) on the lease file `leases`: None when
\* fs::read_to_string fails, Some(lines) otherwise
fetch_dhcp(leases, fingerprint) ==
  IF IsNone(leases) THEN Err("read lease file")
  ELSE LET r == DhcpLoop(Unwrap(leases), 1, None, fingerprint)
       IN  IF r.tag = "Panic" THEN r
           ELSE IF IsNone(r.val[1])
                  THEN Err("No DHCP option found for fetch URL.")
                  ELSE Ok(<<Unwrap(r.val[1]), r.val[2]>>)

\* ------------------------------------------------------ get_search_domain
SEARCH_KEY == <<"s","e","a","r","c","h">>

RECURSIVE SearchLoop(_, _)
\* the `for line in ...lines()` loop of get_search_domain from line i on
SearchLoop(lines, i) ==
  IF i > Len(lines) THEN Err("Could not find search domain in resolv.conf.")
  ELSE LET kv == SplitOnce(lines[i], " ")
       IN  IF IsSome(kv) /\ Unwrap(kv)[1] = SEARCH_KEY
             THEN Ok(Trim(Unwrap(kv)[2]))
             ELSE SearchLoop(lines, i + 1)

\* get_search_domain() on /etc/resolv.conf: None when read_to_string fails
get_search_domain(resolv) ==
  IF IsNone(resolv) THEN Err("read resolv.conf") ELSE SearchLoop(Unwrap(resolv), 1)

\* ------------------------------------------------------- query_txt_record
\* What `dig txt +short <query>` can do: fail to start, exit non-zero (with a
\* stderr that is UTF-8 or not), or exit zero with a stdout that is UTF-8 or
\* not.
DigSpawnErr == [kind |-> "spawn_err", utf8 |-> TRUE, stdout |-> <<>>]
DigExitFail(utf8) == [kind |-> "exit_fail", utf8 |-> utf8, stdout |-> <<>>]
DigExitOk(stdout) == [kind |-> "exit_ok", utf8 |-> TRUE, stdout |-> stdout]
DigExitOkNonUtf8 == [kind |-> "exit_ok", utf8 |-> FALSE, stdout |-> <<>>]

\* a cleaning that removes only one leading and one trailing quote
CleanTxt_Surrounding(stdout) ==
  LET t == Trim(stdout)
      a == IF t # <<>> /\ Head(t) = "\"" THEN Tail(t) ELSE t
      b == IF a # <<>> /\ a[Len(a)] = "\"" THEN SubSeq(a, 1, Len(a) - 1) ELSE a
  IN  Trim(b)

\* String::from_utf8(stdout)?.replace('"', "").trim()
CleanTxt(stdout) == Trim(Replace(stdout, "\"", <<>>))

\* a check that accepts the empty answer
TxtEmpty_Never(url) == FALSE

\* url.is_empty()
TxtEmpty(url) == url = <<>>

\* query_txt_record(query) when the dig process behaves as `out`
query_txt_record(query, out) ==
  IF out.kind = "spawn_err" THEN Err("Error querying DNS record: spawn")
  ELSE IF out.kind = "exit_fail"
    THEN (IF out.utf8 THEN Err("Error querying DNS record: stderr")
                      ELSE Err("invalid utf-8 in stderr"))
  ELSE IF ~out.utf8 THEN Err("invalid utf-8 in stdout")
  ELSE LET url == CleanTxt(out.stdout)
       IN  IF TxtEmpty(url) THEN Err("Got empty response.") ELSE Ok(url)

\* -------------------------------------------------------------- fetch_dns
\* format!("{sub}.{search_domain}")
QueryName(sub, search_domain) == sub \o <<".">> \o search_domain

\* a condition that queries the fingerprint record on every call
FpQueryNeeded_Always(fingerprint) == TRUE

\* fingerprint.is_none()
FpQueryNeeded(fingerprint) == IsNone(fingerprint)

\* fetch_dns(fingerprint) reading resolv.conf `resolv`, with dig behaving as
\* out_url on the first query and out_fp on the second.  Yields the Result,
\* whether resolv.conf was read, and the dig queries issued, in order.
fetch_dns(fingerprint, resolv, out_url, out_fp) ==
  LET sd == get_search_domain(resolv)
  IN  IF sd.tag = "Err" THEN [res |-> sd, queries |-> <<>>]
      ELSE
        LET q1 == QueryName(ANSWER_SUBDOMAIN, sd.val)
            u == query_txt_record(q1, out_url)
        IN  IF u.tag = "Err" THEN [res |-> u, queries |-> <<q1>>]
            ELSE IF FpQueryNeeded(fingerprint)
              THEN LET q2 == QueryName(ANSWER_SUBDOMAIN_FP, sd.val)
                       f == query_txt_record(q2, out_fp)
                   IN  [res |-> Ok(<<u.val,
                                     IF f.tag = "Ok" THEN Some(f.val) ELSE None>>),
                        queries |-> <<q1, q2>>]
              ELSE [res |-> Ok(<<u.val, fingerprint>>), queries |-> <<q1>>]

\* ------------------------------------------------------- utils::mod.rs
LowerLetters == <<"a","b","c","d","e","f","i","m","n","o","p","r","s","t","x">>
UpperLetters == <<"A","B","C","D","E","F","I","M","N","O","P","R","S","T","X">>

\* char::to_uppercase on the letters the model uses
UpperChar(c) ==
  IF \E i \in 1..Len(LowerLetters) : LowerLetters[i] = c
    THEN UpperLetters[CHOOSE i \in 1..Len(LowerLetters) : LowerLetters[i] = c]
    ELSE c

\* char::to_lowercase on the letters the model uses
LowerChar(c) ==
  IF \E i \in 1..Len(UpperLetters) : UpperLetters[i] = c
    THEN LowerLetters[CHOOSE i \in 1..Len(UpperLetters) : UpperLetters[i] = c]
    ELSE c

\* str::to_uppercase
to_uppercase(s) == [i \in 1..Len(s) |-> UpperChar(s[i])]

\* str::to_lowercase
to_lowercase(s) == [i \in 1..Len(s) |-> LowerChar(s[i])]

\* Path::new(a).join(b) for a relative b
PathJoin(a, b) == a \o <<"/">> \o b

\* Path::try_exists against a directory listing: `present` are the paths that
\* exist, `broken` the paths whose lookup fails with an I/O error
try_exists(path, present, broken) ==
  IF path \in broken THEN Err("io") ELSE Ok(path \in present)

\* format!("Could not detect upper or lower case labels for '{partlabel_source}'")
NotFoundMessage(partlabel_source) ==
  <<"C","o","u","l","d"," ","n","o","t"," ","d","e","t","e","c","t"," ","u","p","p","e","r"," ","o","r"," ","l","o","w","e","r"," ","c","a","s","e"," ","l","a","b","e","l","s"," ","f","o","r"," ","'">>
    \o partlabel_source \o <<"'">>

\* a search that tries the lower case label first
scan_partlabels_LowerFirst(partlabel_source, search_path, present, broken) ==
  LET upath == PathJoin(search_path, to_uppercase(partlabel_source))
      lpath == PathJoin(search_path, to_lowercase(partlabel_source))
  IN  IF try_exists(lpath, present, broken) = Ok(TRUE)
        THEN [res |-> Ok(lpath), lookups |-> 1, msg |-> <<>>]
      ELSE IF try_exists(upath, present, broken) = Ok(TRUE)
        THEN [res |-> Ok(upath), lookups |-> 2, msg |-> <<>>]
      ELSE [res |-> Err("Could not detect upper or lower case labels"),
            lookups |-> 2, msg |-> NotFoundMessage(partlabel_source)]

\* scan_partlabels(partlabel_source, search_path): the Result, the number of
\* existence checks made, and the text of the error message (empty on Ok)
scan_partlabels(partlabel_source, search_path, present, broken) ==
  LET upath == PathJoin(search_path, to_uppercase(partlabel_source))
      lpath == PathJoin(search_path, to_lowercase(partlabel_source))
  IN  IF try_exists(upath, present, broken) = Ok(TRUE)
        THEN [res |-> Ok(upath), lookups |-> 1, msg |-> <<>>]
      ELSE IF try_exists(lpath, present, broken) = Ok(TRUE)
        THEN [res |-> Ok(lpath), lookups |-> 2, msg |-> <<>>]
      ELSE [res |-> Err("Could not detect upper or lower case labels"),
            lookups |-> 2, msg |-> NotFoundMessage(partlabel_source)]

RECURSIVE MountedLoop_Bare(_, _, _)
\* a loop that misses the mount point when a field follows it on the line
MountedLoop_Bare(lines, i, target_path) ==
  IF i > Len(lines) THEN FALSE
  ELSE IF NthBack(SplitOn(lines[i], " "), 0) = Some(target_path) THEN TRUE
  ELSE MountedLoop_Bare(lines, i + 1, target_path)

RECURSIVE MountedLoop(_, _, _)
\* the loop of check_if_mounted over the lines of /proc/mounts from line i on
MountedLoop(lines, i, target_path) ==
  IF i > Len(lines) THEN FALSE
  ELSE IF Nth(SplitOn(lines[i], " "), 1) = Some(target_path) THEN TRUE
  ELSE MountedLoop(lines, i + 1, target_path)

\* check_if_mounted(target_path) on /proc/mounts: None when it cannot be read
check_if_mounted(mounts, target_path) ==
  IF IsNone(mounts) THEN Err("read /proc/mounts")
  ELSE Ok(MountedLoop(Unwrap(mounts), 1, target_path))

\* What the mount command can do: fail to start, exit zero, or exit non-zero
\* with a stderr that is UTF-8 or not.
MountOutcomes == {"spawn_err", "exit_ok", "exit_fail", "exit_fail_nonutf8"}

\* a match that turns a non-zero exit of mount into an error
MountResult_FailIsError(outcome) ==
  CASE outcome = "spawn_err" -> Err("Error mounting: spawn")
    [] outcome = "exit_ok" -> Ok(ANSWER_MP)
    [] outcome = "exit_fail" -> Err("Error mounting: exit status")
    [] outcome = "exit_fail_nonutf8" -> Err("invalid utf-8 in stderr")

\* the match on Command::output() of mount: the path on exit zero and, after a
\* warning, on a non-zero exit; an error when the process cannot be started
\* or String::from_utf8(stderr)? fails
MountResult(outcome) ==
  CASE outcome = "spawn_err" -> Err("Error mounting: spawn")
    [] outcome = "exit_ok" -> Ok(ANSWER_MP)
    [] outcome = "exit_fail" -> Ok(ANSWER_MP)
    [] outcome = "exit_fail_nonutf8" -> Err("invalid utf-8 in stderr")

\* mount_proxmoxinst_part() in an environment env =
\*   [mounts: /proc/mounts, present, broken: the by-label directory,
\*    mkdir_ok: whether create_dir_all succeeds, mount: the mount outcome].
\* Yields the Result, the counts of label lookups, directory creations and
\* mount commands, how the mount command ended ("none" when it was not run),
\* and whether the partition is mounted afterwards.
mount_proxmoxinst_part(env) ==
  IF check_if_mounted(env.mounts, ANSWER_MP) = Ok(TRUE)
    THEN [res |-> Ok(ANSWER_MP), lookups |-> 0, mkdirs |-> 0, mountcmds |-> 0,
          cmd |-> "none", mounted |-> TRUE, part |-> None]
  ELSE
    LET scan == scan_partlabels(PARTLABEL, SEARCH_PATH, env.present, env.broken)
    IN  IF scan.res.tag = "Err"
          THEN [res |-> scan.res, lookups |-> scan.lookups, mkdirs |-> 0,
                mountcmds |-> 0, cmd |-> "none", mounted |-> FALSE,
                part |-> None]
        ELSE IF ~env.mkdir_ok
          THEN [res |-> Err("create_dir_all"), lookups |-> scan.lookups,
                mkdirs |-> 1, mountcmds |-> 0, cmd |-> "none",
                mounted |-> FALSE, part |-> Some(scan.res.val)]
        ELSE
          [res |-> MountResult(env.mount),
           lookups |-> scan.lookups, mkdirs |-> 1, mountcmds |-> 1,
           cmd |-> env.mount,
           mounted |-> (env.mount = "exit_ok"),
           part |-> Some(scan.res.val)]

\* --------------------------------------- get_cert_fingerprint_from_file
\* The file cert_fingerprint.txt as seen below the mount point: the file of
\* the partition when it is mounted, and nothing in the bare directory
\* otherwise.  A file is [exists: "yes" | "no" | "err", content: Option<str>],
\* content None when read_to_string fails.
NoFile == [exists |-> "no", content |-> None]
VisibleCertFile(mounted, part_file) == IF mounted THEN part_file ELSE NoFile

\* a reader that lowercases what it read
ReadFingerprint_Lowercase(content) == to_lowercase(Trim(content))

\* fs::read_to_string(cert_path)?.trim().into()
ReadFingerprint(content) == Trim(content)

\* get_cert_fingerprint_from_file() in environment env, where env.cert is the
\* fingerprint file of the partition; yields the Result, the mount record and
\* the text read from the file (None when nothing was read)
get_cert_fingerprint_from_file(env) ==
  LET m == mount_proxmoxinst_part(env)
  IN  IF m.res.tag = "Err" THEN [res |-> m.res, mount |-> m, read |-> None]
      ELSE
        LET f == VisibleCertFile(m.mounted, env.cert)
        IN  IF f.exists = "yes"
              THEN (IF IsNone(f.content)
                      THEN [res |-> Err("read fingerprint file"), mount |-> m,
                            read |-> None]
                      ELSE [res |-> Ok(ReadFingerprint(Unwrap(f.content))),
                            mount |-> m, read |-> f.content])
              ELSE [res |-> Err("could not find cert fingerprint file"),
                    mount |-> m, read |-> None]

\* ------------------------------------------------------------ environment
\* the lines a lease file is made of: well-formed and malformed url and
\* fingerprint options, indented or not, and a line that is no option
LeaseLines ==
  { <<" "," ","o","p","t","i","o","n"," ","p","r","o","x","m","o","x","i","n","s","t","-","u","r","l"," ","\"","u","\"",";">>,
    <<"o","p","t","i","o","n"," ","p","r","o","x","m","o","x","i","n","s","t","-","u","r","l"," ","\"","v","\"",";">>,
    <<"o","p","t","i","o","n"," ","p","r","o","x","m","o","x","i","n","s","t","-","u","r","l"," ","\"","\"",";">>,
    <<"o","p","t","i","o","n"," ","p","r","o","x","m","o","x","i","n","s","t","-","u","r","l">>,
    <<"o","p","t","i","o","n"," ","p","r","o","x","m","o","x","i","n","s","t","-","u","r","l"," ","\"","u","\"",";"," ">>,
    <<"o","p","t","i","o","n"," ","p","r","o","x","m","o","x","i","n","s","t","-","f","p"," ","\"","A","\"",";">>,
    <<"\t","o","p","t","i","o","n"," ","p","r","o","x","m","o","x","i","n","s","t","-","f","p"," ","\"","b","\"",";">>,
    <<"o","p","t","i","o","n"," ","p","r","o","x","m","o","x","i","n","s","t","-","f","p"," ","A">>,
    <<"r","e","n","e","w"," ","1",";">> }

\* sequences of at most n lines
SeqsUpTo(S, n) == UNION { [1..k -> S] : k \in 0..n }

\* the lease file: unreadable, or at most MaxLines lines
LeaseFiles == {None} \cup { Some(l) : l \in SeqsUpTo(LeaseLines, MaxLines) }

\* /etc/resolv.conf: unreadable, without a search line, or with one
ResolvFiles ==
  { None,
    Some(<<<<"n","a","m","e","s","e","r","v","e","r"," ","1">>>>),
    Some(<<<<"s","e","a","r","c","h">>>>),
    Some(<<<<"n","a","m","e","s","e","r","v","e","r"," ","1">>, <<"s","e","a","r","c","h"," ","d">>>>),
    Some(<<<<"s","e","a","r","c","h"," "," ","e",".","x"," ">>, <<"s","e","a","r","c","h"," ","d">>>>) }

\* what dig prints for a TXT record when it exits zero
DigStdouts ==
  { <<"\"","u","\"","\n">>,
    <<"\"","u","\""," ","\"","w","\"","\n">>,
    <<"\"","\"","\n">>,
    <<"\"","A","\"","\n">> }

\* every behaviour of one dig invocation
DigOutcomes ==
  {DigSpawnErr, DigExitFail(TRUE), DigExitFail(FALSE), DigExitOkNonUtf8}
    \cup { DigExitOk(o) : o \in DigStdouts }

\* /proc/mounts: unreadable, without the mount point, or with it
MountTables ==
  { None,
    Some(<<<<"/","m","n","t","/","a","n","s","w","e","r"," ","/","x"," ","v">>>>),
    Some(<<<<"d"," ","/","m","n","t","/","a","n","s","w","e","r"," ","v">>>>),
    Some(<<<<"/","m","n","t","/","a","n","s","w","e","r"," ","/","x"," ","v">>, <<"d"," ","/","m","n","t","/","a","n","s","w","e","r"," ","v">>>>) }

UpperLabelPath == PathJoin(SEARCH_PATH, <<"P","R","O","X","M","O","X","I","N","S","T">>)
LowerLabelPath == PathJoin(SEARCH_PATH, <<"p","r","o","x","m","o","x","i","n","s","t">>)

\* the by-label directory: which of the two links exist
LabelDirs == SUBSET {UpperLabelPath, LowerLabelPath}

\* the links whose lookup fails
BrokenLinks == {{}, {UpperLabelPath}}

\* cert_fingerprint.txt on the partition: absent, unreadable, or with content
CertFiles ==
  { NoFile,
    [exists |-> "err", content |-> None],
    [exists |-> "yes", content |-> None],
    [exists |-> "yes", content |-> Some(<<" ","A","\n">>)],
    [exists |-> "yes", content |-> Some(<<"c">>)],
    [exists |-> "yes", content |-> Some(<<"\n">>)] }

\* /tmp/cert_fingerprint before the run: absent, or left by something else
TmpFiles == { None, Some(<<"o">>) }

\* ------------------------------------------------------------------- state
VARIABLES
  pc,           \* where get_answer is: "probe", "dhcp", "dns", "persist",
                \* "sysinfo", "post"; or how it ended: "done", "error", "panic"
  fingerprint,  \* the local `fingerprint` of get_answer
  answer_url,   \* the local `answer_url` of get_answer, None until assigned
  probe,        \* what get_cert_fingerprint_from_file did and returned
  dhcp,         \* what fetch_dhcp read and returned
  dns,          \* what fetch_dns read, queried and returned
  tmp_file,     \* the content of /tmp/cert_fingerprint, None when absent
  writes,       \* the fs::write calls made, in order
  post_calls,   \* the post::call invocations made, in order
  result,       \* the Result get_answer returned
  unit          \* a single call of a helper function: its input and output

vars == <<pc, fingerprint, answer_url, probe, dhcp, dns, tmp_file, writes,
          post_calls, result, unit>>

NotCalled == [called |-> FALSE]

Init ==
  /\ pc = "probe"
  /\ fingerprint = None
  /\ answer_url = None
  /\ probe = NotCalled
  /\ dhcp = NotCalled
  /\ dns = NotCalled
  /\ tmp_file \in TmpFiles
  /\ writes = <<>>
  /\ post_calls = <<>>
  /\ result = None
  /\ unit = NotCalled

\* a match that probes the file again after a failure
ProbeNextPc_Retry(tag) == IF tag = "Err" THEN "probe" ELSE "dhcp"

\* a match that returns the error of the probe to the caller
ProbeNextPc_Propagate(tag) == IF tag = "Err" THEN "error" ELSE "dhcp"

\* where the match on get_cert_fingerprint_from_file's Result continues: both
\* arms go on to the DHCP attempt
ProbeNextPc(tag) == "dhcp"

\* a probe that writes the fingerprint of the file to /tmp/cert_fingerprint
\* as soon as it is read
ProbeFile_PersistsEarly ==
  /\ pc = "probe"
  /\ \E mounts \in MountTables, present \in LabelDirs, broken \in BrokenLinks,
        mkdir_ok \in BOOLEAN, mount \in MountOutcomes, cert \in CertFiles :
       LET env == [mounts |-> mounts, present |-> present, broken |-> broken,
                   mkdir_ok |-> mkdir_ok, mount |-> mount, cert |-> cert]
           r == get_cert_fingerprint_from_file(env)
       IN  /\ probe' = [called |-> TRUE, res |-> r.res, mount |-> r.mount,
                        read |-> r.read]
           /\ fingerprint' = IF r.res.tag = "Ok" THEN Some(r.res.val) ELSE None
           /\ pc' = ProbeNextPc(r.res.tag)
           /\ \/ /\ r.res.tag = "Ok"
                 /\ writes' = Append(writes, [path |-> TMP_CERT_FINGERPRINT,
                                              content |-> r.res.val,
                                              ok |-> TRUE])
                 /\ tmp_file' = Some(r.res.val)
              \/ /\ r.res.tag # "Ok"
                 /\ UNCHANGED <<writes, tmp_file>>
  /\ UNCHANGED <<answer_url, dhcp, dns, post_calls, result, unit>>

\* get_answer, lines 45-52: the fingerprint-file probe; an error is logged
\* and leaves the fingerprint unset
ProbeFile ==
  /\ pc = "probe"
  /\ \E mounts \in MountTables, present \in LabelDirs, broken \in BrokenLinks,
        mkdir_ok \in BOOLEAN, mount \in MountOutcomes, cert \in CertFiles :
       LET env == [mounts |-> mounts, present |-> present, broken |-> broken,
                   mkdir_ok |-> mkdir_ok, mount |-> mount, cert |-> cert]
           r == get_cert_fingerprint_from_file(env)
       IN  /\ probe' = [called |-> TRUE, res |-> r.res, mount |-> r.mount,
                        read |-> r.read]
           /\ fingerprint' = IF r.res.tag = "Ok" THEN Some(r.res.val) ELSE None
           /\ pc' = ProbeNextPc(r.res.tag)
  /\ UNCHANGED <<answer_url, dhcp, dns, tmp_file, writes, post_calls, result, unit>>

\* a match that falls through to the DNS lookup whatever fetch_dhcp returned
DhcpNextPc_AlwaysDns(tag) == IF tag = "Panic" THEN "panic" ELSE "dns"

\* where the match on fetch_dhcp's Result continues: Ok is final, Err falls
\* back to fetch_dns, and a panic unwinds out of get_answer
DhcpNextPc(tag) ==
  CASE tag = "Ok" -> "persist"
    [] tag = "Err" -> "dns"
    [] tag = "Panic" -> "panic"

\* a DHCP attempt that keeps the fingerprint of the lease when the URL option
\* is missing
FetchDhcp_KeepsLeaseFingerprint ==
  /\ pc = "dhcp"
  /\ \E leases \in LeaseFiles :
       LET r == fetch_dhcp(leases, fingerprint)
           scan == IF IsNone(leases) THEN Ok(<<None, fingerprint>>)
                   ELSE DhcpLoop(Unwrap(leases), 1, None, fingerprint)
       IN  /\ dhcp' = [called |-> TRUE, leases |-> leases,
                       fp_in |-> fingerprint, res |-> r]
           /\ \/ /\ r.tag = "Ok"
                 /\ answer_url' = Some(r.val[1])
                 /\ fingerprint' = r.val[2]
              \/ /\ r.tag = "Err"
                 /\ fingerprint' = scan.val[2]
                 /\ UNCHANGED answer_url
              \/ /\ r.tag = "Panic"
                 /\ UNCHANGED <<answer_url, fingerprint>>
           /\ pc' = DhcpNextPc(r.tag)
  /\ UNCHANGED <<probe, dns, tmp_file, writes, post_calls, result, unit>>

\* get_answer, lines 56-59: the DHCP attempt with the current fingerprint
FetchDhcp ==
  /\ pc = "dhcp"
  /\ \E leases \in LeaseFiles :
       LET r == fetch_dhcp(leases, fingerprint)
       IN  /\ dhcp' = [called |-> TRUE, leases |-> leases,
                       fp_in |-> fingerprint, res |-> r]
           /\ \/ /\ r.tag = "Ok"
                 /\ answer_url' = Some(r.val[1])
                 /\ fingerprint' = r.val[2]
              \/ /\ r.tag \in {"Err", "Panic"}
                 /\ UNCHANGED <<answer_url, fingerprint>>
           /\ pc' = DhcpNextPc(r.tag)
  /\ UNCHANGED <<probe, dns, tmp_file, writes, post_calls, result, unit>>

\* get_answer, lines 58-61: the DNS fallback with the current fingerprint;
\* its error is returned by `?`
FetchDns ==
  /\ pc = "dns"
  /\ \E resolv \in ResolvFiles, out_url \in DigOutcomes, out_fp \in DigOutcomes :
       LET d == fetch_dns(fingerprint, resolv, out_url, out_fp)
       IN  /\ dns' = [called |-> TRUE, resolv_reads |-> 1,
                      search_domain |-> get_search_domain(resolv),
                      outs |-> SubSeq(<<out_url, out_fp>>, 1, Len(d.queries)),
                      queries |-> d.queries,
                      fp_in |-> fingerprint, res |-> d.res]
           /\ \/ /\ d.res.tag = "Ok"
                 /\ answer_url' = Some(d.res.val[1])
                 /\ fingerprint' = d.res.val[2]
                 /\ pc' = "persist"
                 /\ UNCHANGED result
              \/ /\ d.res.tag = "Err"
                 /\ result' = Some(d.res)
                 /\ pc' = "error"
                 /\ UNCHANGED <<answer_url, fingerprint>>
  /\ UNCHANGED <<probe, dhcp, tmp_file, writes, post_calls, unit>>

\* a write that terminates the fingerprint with a newline
WriteContent_Newline(fp) == Unwrap(fp) \o <<"\n">>

\* the bytes handed to fs::write: fp.unwrap()
WriteContent(fp) == Unwrap(fp)

\* What fs::write can do: create or truncate the file and write all of the
\* content, fail to open the file, or fail after truncating it.
WriteOutcomes == {"ok", "create_failed", "write_failed"}

\* the file after fs::write(path, content) with the given outcome
FileAfterWrite(old, content, outcome) ==
  CASE outcome = "ok" -> Some(content)
    [] outcome = "create_failed" -> old
    [] outcome = "write_failed" -> Some(<<>>)

\* get_answer, lines 64-67: fs::write of a resolved fingerprint, its Result
\* dropped by .ok()
Persist ==
  /\ pc = "persist"
  /\ \/ /\ IsSome(fingerprint)
        /\ \E outcome \in WriteOutcomes :
             /\ writes' = Append(writes, [path |-> TMP_CERT_FINGERPRINT,
                                          content |-> WriteContent(fingerprint),
                                          ok |-> outcome = "ok"])
             /\ tmp_file' = FileAfterWrite(tmp_file, WriteContent(fingerprint),
                                           outcome)
     \/ /\ IsNone(fingerprint)
        /\ UNCHANGED <<writes, tmp_file>>
  /\ pc' = "sysinfo"
  /\ UNCHANGED <<fingerprint, answer_url, probe, dhcp, dns, post_calls, result, unit>>

\* get_answer, line 70: sysinfo::get_sysinfo(false)?
GetSysinfo ==
  /\ pc = "sysinfo"
  /\ \/ /\ pc' = "post"
        /\ UNCHANGED result
     \/ /\ pc' = "error"
        /\ result' = Some(Err("get_sysinfo"))
  /\ UNCHANGED <<fingerprint, answer_url, probe, dhcp, dns, tmp_file, writes,
                 post_calls, unit>>

\* get_answer, lines 72-73: post::call(answer_url, fingerprint, payload)?
PostCall ==
  /\ pc = "post"
  /\ post_calls' = Append(post_calls, [url |-> Unwrap(answer_url),
                                       fingerprint |-> fingerprint])
  /\ \/ /\ pc' = "done"
        /\ result' = Some(Ok(<<"answer">>))
     \/ /\ pc' = "error"
        /\ result' = Some(Err("post::call"))
  /\ UNCHANGED <<fingerprint, answer_url, probe, dhcp, dns, tmp_file, writes, unit>>

Next ==
  \/ ProbeFile
  \/ FetchDhcp
  \/ FetchDns
  \/ Persist
  \/ GetSysinfo
  \/ PostCall

Spec == Init /\ [][Next]_vars

\* ------------------------------------- strip_dhcp_option on its own
\* longest token handed to strip_dhcp_option
MaxTokenLen == 4

TokenChars == {"\"", ";", "u"}

\* the token of the example `option proxmoxinst-url "http://x/y";`
ExampleToken == <<"\"","h","t","t","p",":","/","/","x","/","y","\"",";">>

StripTokens == SeqsUpTo(TokenChars, MaxTokenLen) \cup {ExampleToken}

\* one call strip_dhcp_option(Some(token))
CallStrip ==
  /\ ~unit.called
  /\ \E token \in StripTokens :
       unit' = [called |-> TRUE, input |-> token,
                output |-> strip_dhcp_option(Some(token))]
  /\ UNCHANGED <<pc, fingerprint, answer_url, probe, dhcp, dns, tmp_file,
                 writes, post_calls, result>>

NextStrip == CallStrip

SpecStrip == Init /\ [][NextStrip]_vars

\* ------------------------------- mount_proxmoxinst_part on its own, repeated
\* most calls of mount_proxmoxinst_part in a row
MaxMountCalls == 3

\* /proc/mounts after a mount command that exited zero: the kernel lists the
\* partition at the mount point (an unreadable table stays unreadable)
MountsAfter(mounts, r) ==
  IF r.cmd = "exit_ok" /\ IsSome(mounts)
    THEN Some(Append(Unwrap(mounts),
                     Unwrap(r.part) \o <<" ">> \o ANSWER_MP \o <<" ", "r", "o">>))
    ELSE mounts

InitMount ==
  /\ pc = "probe"
  /\ fingerprint = None
  /\ answer_url = None
  /\ probe = NotCalled
  /\ dhcp = NotCalled
  /\ dns = NotCalled
  /\ tmp_file = None
  /\ writes = <<>>
  /\ post_calls = <<>>
  /\ result = None
  /\ \E m \in MountTables :
       unit = [called |-> FALSE, n |-> 0, mounts |-> m, read_mounts |-> None,
               output |-> NotCalled, mountcmds |-> 0]

\* one call of mount_proxmoxinst_part() on the current mount table
CallMount ==
  /\ unit.n < MaxMountCalls
  /\ \E present \in LabelDirs, broken \in BrokenLinks, mkdir_ok \in BOOLEAN,
        mount \in MountOutcomes :
       LET env == [mounts |-> unit.mounts, present |-> present,
                   broken |-> broken, mkdir_ok |-> mkdir_ok, mount |-> mount]
           r == mount_proxmoxinst_part(env)
       IN  unit' = [called |-> TRUE, n |-> unit.n + 1,
                    mounts |-> MountsAfter(unit.mounts, r),
                    read_mounts |-> unit.mounts,
                    output |-> r,
                    mountcmds |-> unit.mountcmds + r.mountcmds]
  /\ UNCHANGED <<pc, fingerprint, answer_url, probe, dhcp, dns, tmp_file,
                 writes, post_calls, result>>

NextMount == CallMount

SpecMount == InitMount /\ [][NextMount]_vars

\* --------------------------------------------- scan_partlabels on its own
\* the labels searched for: the label of the installer in lower, upper and
\* mixed case, and a label without letters
ScanLabels ==
  { PARTLABEL, to_uppercase(PARTLABEL),
    <<"P","r","o","x","m","o","x","I","n","s","t">>, <<"1">> }

\* the directories searched in
ScanDirs == { SEARCH_PATH, <<"/","d">> }

\* the entries a searched directory can hold for a label: the upper case
\* name, the lower case name, the label as written
ScanEntries(label, dir) ==
  { PathJoin(dir, to_uppercase(label)), PathJoin(dir, to_lowercase(label)),
    PathJoin(dir, label) }

\* one call scan_partlabels(label, dir) on a directory listing
CallScan ==
  /\ ~unit.called
  /\ \E label \in ScanLabels, dir \in ScanDirs :
       \E present \in SUBSET ScanEntries(label, dir),
          broken \in SUBSET ScanEntries(label, dir) :
         unit' = [called |-> TRUE, label |-> label, dir |-> dir,
                  present |-> present, broken |-> broken,
                  output |-> scan_partlabels(label, dir, present, broken)]
  /\ UNCHANGED <<pc, fingerprint, answer_url, probe, dhcp, dns, tmp_file,
                 writes, post_calls, result>>

NextScan == CallScan

SpecScan == Init /\ [][NextScan]_vars

\* ---------------------------------------------------- vocabulary of the claims
\* line i of the lease file names the option whose prefix is m
MatchesOption(lines, i, m) == StartsWith(Trim(lines[i]), m)

HasOption(lines, m) == \E i \in 1..Len(lines) : MatchesOption(lines, i, m)

\* the first line, in file order, that names the option
FirstOptionLine(lines, m) ==
  lines[CHOOSE i \in 1..Len(lines) :
          /\ MatchesOption(lines, i, m)
          /\ \A j \in 1..(i - 1) : ~MatchesOption(lines, j, m)]

\* the text after the last space of a line
ValueToken(line) ==
  LET spaces == { i \in 1..Len(line) : line[i] = " " }
      k == IF spaces = {} THEN 0
           ELSE CHOOSE i \in spaces : \A j \in spaces : j <= i
  IN  SubSeq(line, k + 1, Len(line))

\* the token "v"; of a value v
Quoted(v) == <<"\"">> \o v \o <<"\"", ";">>

\* the token has the form "value";
WellFormedToken(tok) ==
  /\ Len(tok) >= 3
  /\ tok[1] = "\""
  /\ tok[Len(tok) - 1] = "\""
  /\ tok[Len(tok)] = ";"

\* what is left of a token between its first and its last two characters
TokenValue(tok) == SubSeq(tok, 2, Len(tok) - 2)

DhcpOk == dhcp.called /\ dhcp.res.tag = "Ok"
DhcpErr == dhcp.called /\ dhcp.res.tag = "Err"
DnsOk == dns.called /\ dns.res.tag = "Ok"
DnsErr == dns.called /\ dns.res.tag = "Err"
FileFingerprint == probe.called /\ probe.res.tag = "Ok"
Resolved == pc \in {"persist", "sysinfo", "post", "done"}
             \/ (pc = "error" /\ IsSome(answer_url))

\* ---------------------------------------------------------------------- C1
\* C1: when the fingerprint-file probe succeeded with value F, the
\* fingerprint returned by fetch_dhcp, the one returned by fetch_dns, the
\* local of get_answer and the one handed to post::call are all Some(F),
\* whatever the lease file and the TXT records hold; the URL handed over is
\* the one fetch_dhcp returned, or the one fetch_dns returned on fallback.
C1_FilePrecedence ==
  FileFingerprint =>
    LET F == probe.res.val
    IN  /\ fingerprint = Some(F)
        /\ DhcpOk => dhcp.res.val[2] = Some(F)
        /\ DnsOk => dns.res.val[2] = Some(F)
        /\ \A i \in 1..Len(post_calls) :
             /\ post_calls[i].fingerprint = Some(F)
             /\ DhcpOk => post_calls[i].url = dhcp.res.val[1]
             /\ ~DhcpOk => DnsOk /\ post_calls[i].url = dns.res.val[1]

\* the file says c, the lease advertises another fingerprint, and the
\* transport was handed c with the URL of the lease
C1_Witness ==
  /\ FileFingerprint /\ probe.res.val = <<"c">>
  /\ DhcpOk
  /\ HasOption(Unwrap(dhcp.leases), fp_match)
  /\ TokenValue(ValueToken(FirstOptionLine(Unwrap(dhcp.leases), fp_match))) = <<"A">>
  /\ Len(post_calls) = 1
  /\ post_calls[1].fingerprint = Some(<<"c">>)

\* ---------------------------------------------------------------------- C2
\* C2: when the lease file is readable and holds a url option, fetch_dns is
\* not called (resolv.conf is not read and dig is not run); when fetch_dhcp
\* succeeded, the lease held a url option, the resolved URL is its value, and
\* with no fingerprint from the file and no fingerprint option in the lease
\* the fingerprint is None.
C2_DhcpShortCircuit ==
  /\ (dhcp.called /\ IsSome(dhcp.leases)
        /\ HasOption(Unwrap(dhcp.leases), url_match)) => ~dns.called
  /\ DhcpOk =>
    LET lines == Unwrap(dhcp.leases)
    IN  /\ ~dns.called
        /\ HasOption(lines, url_match)
        /\ answer_url = Some(TokenValue(ValueToken(FirstOptionLine(lines, url_match))))
        /\ \A i \in 1..Len(post_calls) : Some(post_calls[i].url) = answer_url
        /\ (~FileFingerprint /\ ~HasOption(lines, fp_match)) => fingerprint = None

\* a run that ended after a DHCP success with no fingerprint anywhere
C2_Witness ==
  /\ DhcpOk /\ pc = "done"
  /\ ~FileFingerprint
  /\ ~HasOption(Unwrap(dhcp.leases), fp_match)
  /\ post_calls = <<[url |-> <<"u">>, fingerprint |-> None]>>

\* ---------------------------------------------------------------------- C3
\* the lease file gives no URL: it is unreadable or names no url option
LeaseHasNoUrl ==
  dhcp.called /\ (IsNone(dhcp.leases) \/ ~HasOption(Unwrap(dhcp.leases), url_match))

\* the characters of an answer that carry no content
Blank(stdout) == \A i \in 1..Len(stdout) : stdout[i] \in WhiteSpace \cup {"\""}

\* DNS gives no URL: no search domain, or the URL query could not be run,
\* exited non-zero, or printed an empty answer
DnsHasNoUrl ==
  /\ dns.called
  /\ \/ dns.search_domain.tag = "Err"
     \/ /\ Len(dns.outs) >= 1
        /\ \/ dns.outs[1].kind \in {"spawn_err", "exit_fail"}
           \/ dns.outs[1].kind = "exit_ok" /\ dns.outs[1].utf8
                /\ Blank(dns.outs[1].stdout)

\* C3: when neither the lease file nor DNS gives a URL, get_answer has
\* returned an error, no URL was resolved and post::call was not invoked,
\* with or without a fingerprint from the file.
C3_TerminalFailure ==
  (LeaseHasNoUrl /\ DnsHasNoUrl) =>
    /\ pc = "error"
    /\ IsSome(result) /\ Unwrap(result).tag = "Err"
    /\ answer_url = None
    /\ post_calls = <<>>

\* the file gave a fingerprint, the lease no URL, and dig an empty answer
C3_Witness ==
  /\ FileFingerprint
  /\ LeaseHasNoUrl /\ DnsHasNoUrl
  /\ dns.search_domain.tag = "Ok"
  /\ dns.outs[1].kind = "exit_ok"
  /\ pc = "error"

\* ---------------------------------------------------------------------- C4
\* fetch_dhcp failed, a search domain D was found, and the dig query for the
\* URL exited zero with UTF-8 output
DnsUrlAnswered ==
  /\ DhcpErr /\ dns.called
  /\ dns.search_domain.tag = "Ok"
  /\ Len(dns.outs) >= 1
  /\ dns.outs[1].kind = "exit_ok" /\ dns.outs[1].utf8

\* an answer with one leading and one trailing quote removed, trimmed
WithoutSurroundingQuotes(stdout) ==
  LET t == Trim(stdout)
      n == Len(t)
      a == IF n >= 1 /\ t[1] = "\"" THEN 2 ELSE 1
      b == IF n >= 2 /\ t[n] = "\"" THEN n - 1 ELSE n
  IN  Trim(SubSeq(t, a, b))

\* an answer with every quote character removed, trimmed
WithoutQuotes(stdout) == Trim(SelectSeq(stdout, LAMBDA c : c # "\""))

\* the run went on towards the transport with url, and whatever post::call
\* it made carried url
ProceedsWith(url) ==
  /\ DnsOk /\ dns.res.val[1] = url
  /\ answer_url = Some(url)
  /\ Resolved
  /\ \A i \in 1..Len(post_calls) : post_calls[i].url = url

\* C4 as stated: after a failed fetch_dhcp, a non-empty answer to the query
\* for proxmoxinst.D becomes the URL with its surrounding quotes removed and
\* trimmed.
C4_Original ==
  (DnsUrlAnswered /\ WithoutSurroundingQuotes(dns.outs[1].stdout) # <<>>) =>
    /\ dns.queries[1] = QueryName(ANSWER_SUBDOMAIN, dns.search_domain.val)
    /\ ProceedsWith(WithoutSurroundingQuotes(dns.outs[1].stdout))

\* C4 (amended): after a failed fetch_dhcp, an answer to the query for
\* proxmoxinst.D that is non-empty once every quote character is removed and
\* the rest trimmed becomes the URL in exactly that form, and every
\* post::call of the run carries it.
C4_DnsFallback ==
  (DnsUrlAnswered /\ WithoutQuotes(dns.outs[1].stdout) # <<>>) =>
    /\ dns.queries[1] = QueryName(ANSWER_SUBDOMAIN, dns.search_domain.val)
    /\ ProceedsWith(WithoutQuotes(dns.outs[1].stdout))

\* the lease file was unreadable, the search domain is e.x, dig answered
\* "u" "w" and the transport was handed u w
C4_Witness ==
  /\ DnsUrlAnswered
  /\ IsNone(dhcp.leases)
  /\ dns.search_domain.val = <<"e", ".", "x">>
  /\ dns.outs[1].stdout = <<"\"", "u", "\"", " ", "\"", "w", "\"", "\n">>
  /\ Len(post_calls) = 1
  /\ post_calls[1].url = <<"u", " ", "w">>

\* ---------------------------------------------------------------------- C5
\* a fingerprint was resolved and the run is past the fs::write
Persisted == Resolved /\ pc # "persist" /\ IsSome(fingerprint)

\* C5 as stated: once a resolved fingerprint is past the write, the file
\* /tmp/cert_fingerprint holds exactly the fingerprint handed to the transport.
C5_Original ==
  Persisted =>
    /\ tmp_file = fingerprint
    /\ \A i \in 1..Len(post_calls) : post_calls[i].fingerprint = tmp_file

\* C5 (amended): a resolved fingerprint F is handed verbatim to exactly one
\* fs::write on /tmp/cert_fingerprint before the transport is invoked; when
\* that write succeeds the file holds exactly the fingerprint handed to the
\* transport, and when it fails the error is dropped and the run goes on.
C5_Persistence ==
  Persisted =>
    /\ Len(writes) = 1
    /\ writes[1].path = TMP_CERT_FINGERPRINT
    /\ Some(writes[1].content) = fingerprint
    /\ writes[1].ok => tmp_file = fingerprint
    /\ \A i \in 1..Len(post_calls) :
         /\ post_calls[i].fingerprint = fingerprint
         /\ writes[1].ok => post_calls[i].fingerprint = tmp_file

\* a fingerprint from the lease was written over an older file and handed
\* to the transport
C5_Witness ==
  /\ Persisted /\ ~FileFingerprint /\ DhcpOk
  /\ writes = <<[path |-> TMP_CERT_FINGERPRINT, content |-> <<"A">>, ok |-> TRUE]>>
  /\ tmp_file = Some(<<"A">>)
  /\ Len(post_calls) = 1 /\ post_calls[1].fingerprint = Some(<<"A">>)

\* ---------------------------------------------------------------------- C6
\* the first line naming option m exists and its value token is not "value";
MalformedOption(lines, m) ==
  HasOption(lines, m) /\ ~WellFormedToken(ValueToken(FirstOptionLine(lines, m)))

\* C6: when the url option consulted by the scan, or the fingerprint option
\* consulted while no fingerprint is set, has a value token that is not of
\* the form "value";, fetch_dhcp returns an error.
C6_MalformedIsError ==
  (dhcp.called /\ IsSome(dhcp.leases)) =>
    LET lines == Unwrap(dhcp.leases)
    IN  (\/ MalformedOption(lines, url_match)
         \/ IsNone(dhcp.fp_in) /\ MalformedOption(lines, fp_match))
           => dhcp.res.tag = "Err"

C8_DhcpFingerprintOptional ==
  (dhcp.called /\ IsSome(dhcp.leases)
     /\ HasOption(Unwrap(dhcp.leases), url_match)) =>
    LET lines == Unwrap(dhcp.leases)
    IN  /\ dhcp.res.tag = "Ok"
        /\ dhcp.res.val[2] =
             IF IsSome(dhcp.fp_in) THEN dhcp.fp_in
             ELSE IF HasOption(lines, fp_match)
               THEN Some(TokenValue(ValueToken(FirstOptionLine(lines, fp_match))))
               ELSE None

\* ---------------------------------------------------------------------- C9
\* the query for the fingerprint record failed: dig could not be run, exited
\* non-zero, or printed an empty answer
FpQueryFailed ==
  /\ Len(dns.outs) = 2
  /\ \/ dns.outs[2].kind \in {"spawn_err", "exit_fail"}
     \/ dns.outs[2].kind = "exit_ok" /\ dns.outs[2].utf8 /\ Blank(dns.outs[2].stdout)

\* C9: fetch_dns queries proxmoxinst-fp.<search-domain> only when called with
\* fingerprint None, and then at most once after the URL query succeeded;
\* when that query fails fetch_dns still returns the URL with fingerprint None.
C9_DnsFingerprintQuery ==
  dns.called =>
    LET fpq == { i \in 1..Len(dns.queries) :
                   dns.queries[i] = QueryName(ANSWER_SUBDOMAIN_FP, dns.search_domain.val) }
    IN  /\ IsSome(dns.fp_in) => fpq = {}
        /\ Cardinality(fpq) <= 1
        /\ (IsNone(dns.fp_in) /\ DnsOk) => fpq = {2}
        /\ FpQueryFailed =>
             /\ DnsOk
             /\ dns.res.val[1] = WithoutQuotes(dns.outs[1].stdout)
             /\ dns.res.val[2] = None

\* called with None, the URL query answered and the fingerprint query could
\* not be run: fetch_dns returned the URL and no fingerprint
C9_Witness ==
  /\ dns.called /\ IsNone(dns.fp_in)
  /\ Len(dns.queries) = 2
  /\ dns.outs[2].kind = "spawn_err"
  /\ dns.res = Ok(<<<<"u">>, None>>)

\* --------------------------------------------------------------------- C10
\* C10: strip_dhcp_option applied to the token "v"; returns exactly v, for
\* every v, the empty one included.
C10_QuoteStripping ==
  unit.called =>
    \A v \in StripTokens :
      unit.input = Quoted(v) => unit.output = Ok(Some(v))

\* the token "http://x/y"; was stripped to http://x/y
C10_Witness ==
  /\ unit.called
  /\ unit.input = ExampleToken
  /\ unit.output = Ok(Some(<<"h","t","t","p",":","/","/","x","/","y">>))

\* --------------------------------------------------------------------- C11
\* some line of the mount table has the mount point as its second field
ListsMountPoint(mounts) ==
  /\ IsSome(mounts)
  /\ \E k \in 1..Len(Unwrap(mounts)) :
       LET line == Unwrap(mounts)[k]
           n == Len(ANSWER_MP)
       IN  \E i \in 1..Len(line) :
             /\ line[i] = " "
             /\ \A j \in 1..(i - 1) : line[j] # " "
             /\ i + n <= Len(line)
             /\ SubSeq(line, i + 1, i + n) = ANSWER_MP
             /\ (i + n = Len(line) \/ line[i + n + 1] = " ")

\* C11: a call of mount_proxmoxinst_part that finds /mnt/answer as the mount
\* point of a line of the mount table returns the mount point with no label
\* lookup, no directory creation and no mount command, and leaves the table
\* as it is; while the table lists the mount point, further calls run no
\* mount command.
C11_MountIdempotence ==
  /\ [](unit.called /\ ListsMountPoint(unit.read_mounts) =>
          /\ unit.output.res = Ok(ANSWER_MP)
          /\ unit.output.lookups = 0
          /\ unit.output.mkdirs = 0
          /\ unit.output.mountcmds = 0
          /\ unit.mounts = unit.read_mounts)
  /\ [][ListsMountPoint(unit.mounts) =>
          /\ unit'.mountcmds = unit.mountcmds
          /\ unit'.mounts = unit.mounts]_vars

\* a first call mounted the partition and a second call found it mounted
C11_Witness ==
  /\ unit.called /\ unit.n = 2
  /\ unit.mountcmds = 1
  /\ unit.read_mounts \notin MountTables
  /\ ListsMountPoint(unit.read_mounts)
  /\ unit.output.res = Ok(ANSWER_MP)
  /\ unit.output.mountcmds = 0

\* --------------------------------------------------------------------- C12
\* the partition was located and the mount command was run and failed
MountFailed ==
  /\ probe.called
  /\ probe.mount.cmd \in {"spawn_err", "exit_fail", "exit_fail_nonutf8"}

\* the file source is absent: the probe is an error, the run goes on to the
\* DHCP lease and the lease scan starts without a fingerprint
FileSourceAbsent ==
  /\ probe.res.tag = "Err"
  /\ pc # "probe"
  /\ (pc = "dhcp" => fingerprint = None)
  /\ (dhcp.called => dhcp.fp_in = None)

\* C12 as stated: whenever the partition is located and the mount command
\* fails, by a non-zero exit or by not starting at all, mount_proxmoxinst_part
\* returns the mount-point path and the fingerprint-file read fails with
\* "not found".
C12_Original ==
  MountFailed =>
    /\ probe.mount.res = Ok(ANSWER_MP)
    /\ probe.res = Err("could not find cert fingerprint file")

\* C12: when the partition is located and the mount command exits non-zero
\* with a stderr that is UTF-8, mount_proxmoxinst_part returns the mount-point
\* path and the read of the fingerprint file (none below the unmounted mount
\* point) fails with "not found"; when the command cannot be started, or its
\* stderr is not UTF-8, mount_proxmoxinst_part returns an error, which the
\* reader passes on; in every one of these cases the resolver treats the file
\* source as absent and goes on.
C12_MountFailure ==
  MountFailed =>
    /\ probe.mount.lookups >= 1 /\ probe.mount.mkdirs = 1
    /\ probe.mount.mountcmds = 1
    /\ (probe.mount.cmd = "exit_fail" =>
          /\ probe.mount.res = Ok(ANSWER_MP)
          /\ probe.res = Err("could not find cert fingerprint file"))
    /\ (probe.mount.cmd \in {"spawn_err", "exit_fail_nonutf8"} =>
          /\ probe.mount.res.tag = "Err"
          /\ probe.res = probe.mount.res)
    /\ FileSourceAbsent

\* the mount command exited non-zero, the path came back, and the run went
\* on to a lease that supplied the URL
C12_Witness ==
  /\ MountFailed
  /\ probe.mount.cmd = "exit_fail"
  /\ probe.mount.res = Ok(ANSWER_MP)
  /\ DhcpOk
  /\ pc = "done"

\* --------------------------------------------------------------------- C13
\* the path exists: the directory holds it and its lookup does not fail
ScanExists(path) == path \in unit.present /\ path \notin unit.broken

\* text t occurs in text s
Contains(s, t) ==
  \E i \in 0..(Len(s) - Len(t)) : SubSeq(s, i + 1, i + Len(t)) = t

UpperPath == unit.dir \o <<"/">> \o to_uppercase(unit.label)
LowerPath == unit.dir \o <<"/">> \o to_lowercase(unit.label)

\* C13: scan_partlabels(label, dir) returns dir/UPPER(label) whenever that
\* path exists, also when dir/lower(label) exists too; it returns
\* dir/lower(label) when only that one exists; when neither exists it returns
\* an error whose message contains the label as it was passed in.
C13_UppercaseFirst ==
  unit.called =>
    /\ (ScanExists(UpperPath) => unit.output.res = Ok(UpperPath))
    /\ (~ScanExists(UpperPath) /\ ScanExists(LowerPath) =>
          unit.output.res = Ok(LowerPath))
    /\ (~ScanExists(UpperPath) /\ ~ScanExists(LowerPath) =>
          /\ unit.output.res.tag = "Err"
          /\ Contains(unit.output.msg, unit.label))

\* both names exist, they differ, and the upper case one came back
C13_Witness ==
  /\ unit.called
  /\ UpperPath # LowerPath
  /\ ScanExists(UpperPath) /\ ScanExists(LowerPath)
  /\ unit.output.res = Ok(UpperPath)

\* --------------------------------------------------------------------- C14
\* the text is in lower case
IsLowercase(text) ==
  \A i \in 1..Len(text) : \A j \in 1..Len(UpperLetters) : text[i] # UpperLetters[j]

\* the fingerprint as its source supplied it: the text of the file without
\* the white space around it; else, after a successful lease scan, the value
\* token of the first proxmoxinst-fp line between its first and its last two
\* characters; else the answer to the fingerprint query without its quotes
SuppliedFingerprint ==
  IF FileFingerprint THEN Trim(Unwrap(probe.read))
  ELSE IF DhcpOk
    THEN TokenValue(ValueToken(FirstOptionLine(Unwrap(dhcp.leases), fp_match)))
  ELSE WithoutQuotes(dns.outs[2].stdout)

\* C14 as stated: every fingerprint handed to the transport and every
\* fingerprint written to /tmp/cert_fingerprint is in lower case.
C14_Original ==
  /\ \A i \in 1..Len(post_calls) :
       IsSome(post_calls[i].fingerprint) =>
         IsLowercase(Unwrap(post_calls[i].fingerprint))
  /\ \A i \in 1..Len(writes) : IsLowercase(writes[i].content)

\* C14: in every resolution in which a fingerprint is present, the value
\* written to /tmp/cert_fingerprint and handed to the transport is the text
\* its source supplied, character for character and in the case the source
\* used; no case conversion is applied.
C14_AsSupplied ==
  /\ (Resolved /\ IsSome(fingerprint) => fingerprint = Some(SuppliedFingerprint))
  /\ \A i \in 1..Len(post_calls) :
       IsSome(post_calls[i].fingerprint) =>
         post_calls[i].fingerprint = Some(SuppliedFingerprint)
  /\ \A i \in 1..Len(writes) : writes[i].content = SuppliedFingerprint

\* a successful run in which the file supplied an upper case fingerprint,
\* which was written and handed over in upper case
C14_Witness ==
  /\ pc = "done"
  /\ FileFingerprint
  /\ probe.read = Some(<<" ", "A", "\n">>)
  /\ post_calls = <<[url |-> Unwrap(answer_url), fingerprint |-> Some(<<"A">>)]>>
  /\ tmp_file = Some(<<"A">>)

\* --------------------------------------------------------------------- C15
\* the probes are made in the order file, DHCP, DNS, the DNS one only after a
\* failed DHCP attempt, and none has begun before its predecessor returned
ProbeOrder ==
  /\ (pc = "probe" => ~probe.called /\ ~dhcp.called /\ ~dns.called)
  /\ (pc = "dhcp" => probe.called /\ ~dhcp.called /\ ~dns.called)
  /\ (pc = "dns" => DhcpErr /\ ~dns.called)
  /\ (dhcp.called => probe.called)
  /\ (dns.called => DhcpErr)
  /\ (pc \in {"persist", "sysinfo", "post", "done"} => DhcpOk \/ DnsOk)

\* the transport is invoked at most once, with the resolved URL, after the
\* one write of a resolved fingerprint
TransportLast ==
  /\ Len(post_calls) <= 1
  /\ Len(writes) <= 1
  /\ (post_calls # <<>> =>
        /\ pc \in {"done", "error"}
        /\ Some(post_calls[1].url) = answer_url
        /\ post_calls[1].fingerprint = fingerprint
        /\ (IsSome(fingerprint) =>
              /\ Len(writes) = 1
              /\ Some(writes[1].content) = fingerprint))

\* a probe that has returned is not made again, and neither are the write and
\* the transport call
NoRetry ==
  /\ (probe.called => probe' = probe)
  /\ (dhcp.called => dhcp' = dhcp)
  /\ (dns.called => dns' = dns)
  /\ (writes # <<>> => writes' = writes)
  /\ (post_calls # <<>> => post_calls' = post_calls)

\* C15 as stated: the probes occur in the order file, DHCP, DNS, each at most
\* once, DNS only after a failed DHCP attempt, and the transport is invoked at
\* most once and only when the URL is resolved and /tmp/cert_fingerprint holds
\* any resolved fingerprint.
C15_Original ==
  /\ [](ProbeOrder /\ TransportLast)
  /\ [](post_calls # <<>> /\ IsSome(fingerprint) => tmp_file = fingerprint)
  /\ [][NoRetry]_vars

\* C15: the probes occur in the order file, DHCP, DNS, each at most once and
\* each returned before the next begins, DNS only after a failed DHCP
\* attempt; the transport is invoked at most once and only after a URL has
\* been resolved and the one write of any resolved fingerprint has been
\* attempted, whether or not that write succeeded; nothing is retried.
C15_SinglePass ==
  /\ [](ProbeOrder /\ TransportLast)
  /\ [][NoRetry]_vars

\* a run through all three probes whose write failed and whose transport was
\* invoked all the same
C15_Witness ==
  /\ pc = "done"
  /\ probe.called /\ DhcpErr /\ DnsOk
  /\ Len(writes) = 1 /\ ~writes[1].ok
  /\ tmp_file # fingerprint
  /\ Len(post_calls) = 1
  /\ post_calls[1].fingerprint = fingerprint /\ IsSome(fingerprint)

\* --------------------------------------------------------------------- C16
\* C16: whatever fails inside get_cert_fingerprint_from_file (label not
\* found, mount-point directory not created, mount command not started or
\* exited non-zero, mount stderr not UTF-8, fingerprint file missing or
\* unreadable), get_answer does not return at that point: it goes on to the
\* DHCP attempt with the fingerprint unset, and an error it returns later is
\* the error of the DNS fallback or of a step after the URL was resolved.
C16_ProbeFailureContained ==
  (probe.called /\ probe.res.tag = "Err") =>
    /\ pc # "probe"
    /\ (pc = "dhcp" => fingerprint = None /\ result = None)
    /\ (pc \notin {"dhcp"} => dhcp.called /\ dhcp.fp_in = None)
    /\ (result # None =>
          \/ DnsErr /\ result = Some(dns.res)
          \/ IsSome(answer_url) /\ pc \in {"done", "error"})

\* the ways the probe fails
ProbeFailure ==
  IF ~probe.called \/ probe.res.tag # "Err" THEN "none"
  ELSE IF probe.mount.res.tag = "Err"
    THEN (IF probe.mount.mountcmds = 1 THEN probe.mount.cmd
          ELSE IF probe.mount.mkdirs = 1 THEN "mkdir"
          ELSE "label")
  ELSE probe.res.err

\* the mount-point directory could not be created and the run still resolved
\* through the lease with no fingerprint from the file
C16_Witness ==
  /\ ProbeFailure = "mkdir"
  /\ dhcp.called /\ dhcp.fp_in = None
  /\ DhcpOk
  /\ pc = "done"

\* --------------------------------------------------------------------- C17
\* fetch_dhcp returned an error on a readable lease file without a url option
DhcpFailedNoUrl ==
  /\ DhcpErr
  /\ IsSome(dhcp.leases)
  /\ ~HasOption(Unwrap(dhcp.leases), url_match)

\* the fingerprint state before the DHCP attempt: what the file gave
FingerprintBeforeDhcp ==
  IF FileFingerprint THEN Some(Trim(Unwrap(probe.read))) ELSE None

\* C17: when fetch_dhcp fails because the lease file has no proxmoxinst-url
\* option, a proxmoxinst-fp value of that file is discarded: fetch_dns is
\* called with exactly the fingerprint state from before the DHCP attempt
\* (the file fingerprint or None), and with no file fingerprint a final
\* fingerprint is the answer to the DNS fingerprint query.
C17_FailedDhcpContributesNothing ==
  DhcpFailedNoUrl =>
    /\ dhcp.fp_in = FingerprintBeforeDhcp
    /\ (pc = "dns" => fingerprint = FingerprintBeforeDhcp)
    /\ (pc # "dns" => dns.called)
    /\ (dns.called => dns.fp_in = FingerprintBeforeDhcp)
    /\ (~FileFingerprint /\ IsSome(fingerprint) =>
          /\ DnsOk
          /\ Len(dns.outs) = 2
          /\ dns.outs[2].kind = "exit_ok"
          /\ fingerprint = Some(WithoutQuotes(dns.outs[2].stdout)))
    /\ \A i \in 1..Len(post_calls) :
         post_calls[i].fingerprint = IF FileFingerprint
                                       THEN FingerprintBeforeDhcp
                                       ELSE dns.res.val[2]

\* the lease had a well-formed fingerprint option and no url option, the file
\* gave nothing, DNS gave a URL and no fingerprint: the run ended without one
C17_Witness ==
  /\ DhcpFailedNoUrl
  /\ HasOption(Unwrap(dhcp.leases), fp_match)
  /\ ~FileFingerprint
  /\ DnsOk /\ dns.fp_in = None
  /\ pc = "done"
  /\ fingerprint = None
  /\ post_calls[1].fingerprint = None
  /\ writes = <<>>

\* --------------------------------------------------------------------- C18
\* resolution failed terminally: get_answer returned an error, or unwound,
\* without a URL
TerminalFailure == pc \in {"error", "panic"} /\ IsNone(answer_url)

\* resolution succeeded with fingerprint None and is past the write step
ResolvedWithoutFingerprint ==
  Resolved /\ pc # "persist" /\ IsNone(fingerprint)

\* a step that writes to /tmp/cert_fingerprint or changes its content is a
\* step of get_answer that has a URL and a fingerprint in hand
WriteOnlyWhenResolved ==
  (writes' # writes \/ tmp_file' # tmp_file) =>
    /\ pc = "persist"
    /\ IsSome(answer_url) /\ IsSome(fingerprint)
    /\ DhcpOk \/ DnsOk

\* C18: get_answer writes to /tmp/cert_fingerprint only in runs that resolved
\* a URL and a fingerprint: a run that fails terminally, also one in which
\* the fingerprint file supplied a fingerprint, and a run that succeeds with
\* fingerprint None perform no write, and the content of the path changes in
\* no step other than that write.
C18_WriteOnlyWhenResolved ==
  /\ [](writes # <<>> => IsSome(answer_url) /\ IsSome(fingerprint))
  /\ [](TerminalFailure \/ ResolvedWithoutFingerprint => writes = <<>>)
  /\ [][WriteOnlyWhenResolved]_vars

\* the file supplied a fingerprint, neither the lease nor DNS gave a URL, and
\* the older content of /tmp/cert_fingerprint is still there, unwritten
C18_Witness ==
  /\ TerminalFailure
  /\ FileFingerprint /\ IsSome(fingerprint)
  /\ DhcpErr /\ DnsErr
  /\ writes = <<>>
  /\ tmp_file = Some(<<"o">>)

\* --------------------------------------------------------------------- C19
\* C19: in every run of get_answer that reaches the transport, the URL handed
\* to it is not the empty string, whether it came from the DHCP option (also
\* from a lease line whose value is "";) or from the DNS TXT record.
C19_UrlNeverEmpty ==
  \A i \in 1..Len(post_calls) : post_calls[i].url # <<>>

====
